---- MODULE Spec2Model ----
(***************************************************************************)
(* Model of main.py: batch removal of the first audio stream of the video  *)
(* files of a directory by shelling out to ffmpeg, and the ffprobe         *)
(* inspection pass.  Text is modelled character by character (a string is  *)
(* a sequence of one-character strings) so that suffix matching, lower(),  *)
(* path parsing, path joining and str() are computed, not assumed.         *)
(***************************************************************************)
EXTENDS Integers, Sequences, FiniteSets, TLC

VARIABLES
    pc,                 \* position of the interpreter in main.py
    startPath,          \* history: os.environ['PATH'] when the process started
    cfgFile,            \* the file ../config.json: "missing", "invalid" or "json"
    cfgDoc,             \* the JSON object stored in the file (key -> string)
    dirKind,            \* what the configured source directory is on disk
    listing,            \* names of its direct children, in os.scandir order
    environ,            \* os.environ: [has |-> BOOLEAN, PATH |-> string]
    CONFIG,             \* module global CONFIG (line 32)
    FFMPEG_DIR, VIDEO_SOURCE_DIR, VIDEO_TARGET_DIR, FILE_EXTENSION,
    ENV_PATH,           \* module global ENV_PATH (line 39)
    SOURCE_PATH, TARGET_PATH,
    video_source_files, \* list[Path] handed to the loops
    i,                  \* 1-based index of the file the loop is at
    calls,              \* every subprocess.run started: [cmd, path, file]
    results,            \* CompletedProcess of every finished run
    inflight,           \* indexes into calls of the children still running
    log,                \* what print() wrote to stdout
    error,              \* the exception that ended the run
    pathWrites,         \* number of assignments to os.environ['PATH']
    raw,                \* list being built by get_file_data_list_raw
    returned            \* its return value, <<FALSE, _>> until it returns

vars == <<pc, startPath, cfgFile, cfgDoc, dirKind, listing, environ, CONFIG, FFMPEG_DIR,
          VIDEO_SOURCE_DIR, VIDEO_TARGET_DIR, FILE_EXTENSION, ENV_PATH,
          SOURCE_PATH, TARGET_PATH, video_source_files, i, calls, results,
          inflight, log, error, pathWrites, raw, returned>>

-----------------------------------------------------------------------------
(* Bounds *)

MaxFiles == 3       \* longest directory listing / input list explored

-----------------------------------------------------------------------------
(* Text *)

Range(s) == {s[k] : k \in 1..Len(s)}

Last(s) == s[Len(s)]

\* str.lower() on the letters that occur in the model
LowerChar(c) ==
    CASE c = "A" -> "a"
      [] c = "B" -> "b"
      [] c = "K" -> "k"
      [] c = "M" -> "m"
      [] c = "V" -> "v"
      [] OTHER -> c

Lower(s) == [k \in 1..Len(s) |-> LowerChar(s[k])]

\* str.rfind(c), 1-based; 0 when c does not occur (Python: -1)
RFind(s, c) ==
    IF c \in Range(s)
    THEN CHOOSE k \in 1..Len(s) : s[k] = c /\ \A j \in (k+1)..Len(s) : s[j] # c
    ELSE 0

\* str.find(c), 1-based; 0 when c does not occur
Find(s, c) ==
    IF c \in Range(s)
    THEN CHOOSE k \in 1..Len(s) : s[k] = c /\ \A j \in 1..(k-1) : s[j] # c
    ELSE 0

EndsWith(s, t) ==
    /\ Len(t) <= Len(s)
    /\ SubSeq(s, Len(s) - Len(t) + 1, Len(s)) = t

RECURSIVE Split(_, _)
\* str.split(sep) for a one-character separator
Split(s, sep) ==
    IF Find(s, sep) = 0
    THEN <<s>>
    ELSE <<SubSeq(s, 1, Find(s, sep) - 1)>>
            \o Split(SubSeq(s, Find(s, sep) + 1, Len(s)), sep)

RECURSIVE JoinText(_, _)
\* sep.join(list)
JoinText(list, sep) ==
    IF list = <<>> THEN <<>>
    ELSE IF Len(list) = 1 THEN list[1]
    ELSE list[1] \o sep \o JoinText(Tail(list), sep)

-----------------------------------------------------------------------------
(* pathlib.PurePosixPath: [abs |-> anchored at "/", names |-> components] *)

RECURSIVE DropEmptyAndDot(_)
DropEmptyAndDot(segs) ==
    IF segs = <<>> THEN <<>>
    ELSE IF segs[1] = <<>> \/ segs[1] = <<".">>
         THEN DropEmptyAndDot(Tail(segs))
         ELSE <<segs[1]>> \o DropEmptyAndDot(Tail(segs))

\* Path(text)
Path(text) ==
    [abs   |-> Len(text) > 0 /\ text[1] = "/",
     names |-> DropEmptyAndDot(Split(text, "/"))]

\* the / operator between two paths: an absolute right operand wins
PathJoin(a, b) ==
    IF b.abs THEN b
    ELSE [abs |-> a.abs, names |-> a.names \o b.names]

\* str(path)
Str(p) ==
    IF p.abs THEN <<"/">> \o JoinText(p.names, <<"/">>)
    ELSE IF p.names = <<>> THEN <<".">>
    ELSE JoinText(p.names, <<"/">>)

\* path.name
Name(p) == IF p.names = <<>> THEN <<>> ELSE Last(p.names)

\* path.parts[-1]; a path with no component has parts ('/',) or ()
LastPart(p) == IF p.names = <<>> THEN <<"/">> ELSE Last(p.names)

\* path.suffix
Suffix(p) ==
    LET name == Name(p)
        k    == RFind(name, ".")
    IN  IF 1 < k /\ k < Len(name) THEN SubSeq(name, k, Len(name)) ELSE <<>>

\* path.iterdir(): one child path per directory entry, in listing order
IterDir(p, entries) ==
    [k \in 1..Len(entries) |-> [abs |-> p.abs, names |-> Append(p.names, entries[k])]]

-----------------------------------------------------------------------------
(* The inputs of a run: configuration document, file system, environment *)

Keys == <<"ffmpeg_dir", "source_dir", "target_dir", "file_extension_filter">>

T_mkv == <<"m", "k", "v">>
T_MKV == <<"M", "K", "V">>
T_txt == <<"t", "x", "t">>

\* the values a configuration document may give to each key
KeyValues(key) ==
    CASE key = "ffmpeg_dir" -> {<<"/", "f", "f">>}
      [] key = "source_dir" -> {<<"/", "v">>, <<"v">>, <<".">>}
      [] key = "target_dir" -> {<<"/", "t">>, <<"t">>}
      [] key = "file_extension_filter" -> {T_mkv, T_MKV, T_txt}

\* JSON objects holding any subset of the four keys
ConfigDocs ==
    UNION {[ks -> UNION {KeyValues(k) : k \in ks}] : ks \in SUBSET Range(Keys)}

WellTyped(doc) == \A k \in DOMAIN doc : doc[k] \in KeyValues(k)

\* names a directory entry may have
EntryNames ==
    { <<"a", ".", "m", "k", "v">>,
      <<"B", ".", "M", "K", "V">>,
      <<"e", ".", "M", "k", "v">>,
      <<"c", ".", "t", "x", "t">>,
      <<"m", "k", "v">>,
      <<"d", ".", "m", "k", "v", ".", "t", "x", "t">> }

NoDup(s) == \A j, k \in 1..Len(s) : j # k => s[j] # s[k]

\* a directory listing: distinct names in an order the file system chooses
Listings ==
    UNION {{s \in [1..n -> EntryNames] : NoDup(s)} : n \in 0..MaxFiles}

ExitCodes == {0, 1, -9}              \* success, failure, killed by a signal
StderrTexts == {<<>>, <<"e", "r", "r">>}
StdoutTexts == {<<>>, <<"{", "}">>}
PathValues == {<<"/", "b", "i", "n">>, <<"/", "b", ":", "/", "u">>}
PATHSEP == <<":">>                   \* os.pathsep

NoError == [type |-> "none", args |-> <<>>]
Unset == <<>>

-----------------------------------------------------------------------------
(* State after the interpreter has started, before line 32 runs *)

Init ==
    /\ pc = "load"
    /\ cfgFile \in {"missing", "invalid", "json"}
    /\ cfgDoc \in {d \in ConfigDocs : WellTyped(d)}
    /\ cfgFile # "json" => cfgDoc = <<>>
    /\ dirKind \in {"dir", "missing", "file"}
    /\ listing \in Listings
    /\ dirKind # "dir" => listing = <<>>
    /\ environ \in {[has |-> FALSE, PATH |-> <<>>]}
                     \cup {[has |-> TRUE, PATH |-> p] : p \in PathValues}
    /\ startPath = environ.PATH
    /\ CONFIG = Unset
    /\ FFMPEG_DIR = Unset
    /\ VIDEO_SOURCE_DIR = Unset
    /\ VIDEO_TARGET_DIR = Unset
    /\ FILE_EXTENSION = Unset
    /\ ENV_PATH = Unset
    /\ SOURCE_PATH = Path(<<>>)
    /\ TARGET_PATH = Path(<<>>)
    /\ video_source_files = <<>>
    /\ i = 1
    /\ calls = <<>>
    /\ results = <<>>
    /\ inflight = {}
    /\ log = <<>>
    /\ error = NoError
    /\ pathWrites = 0
    /\ raw = <<>>
    /\ returned = <<FALSE, <<>>>>

\* raise: record the exception and stop
Raise(type, args) ==
    /\ error' = [type |-> type, args |-> args]
    /\ pc' = "failed"

-----------------------------------------------------------------------------
(* Module body, lines 19-42 *)

\* load_json_from_file and the assignment of CONFIG
LoadConfig ==
    /\ pc = "load"
    /\ IF cfgFile = "missing"
       THEN Raise("FileNotFoundError", <<"config.json">>) /\ UNCHANGED CONFIG
       ELSE IF cfgFile = "invalid"
       THEN Raise("JSONDecodeError", <<>>) /\ UNCHANGED CONFIG
       ELSE /\ CONFIG' = cfgDoc
            /\ pc' = "keys"
            /\ UNCHANGED error
    /\ UNCHANGED <<startPath, cfgFile, cfgDoc, dirKind, listing, environ, FFMPEG_DIR,
                   VIDEO_SOURCE_DIR, VIDEO_TARGET_DIR, FILE_EXTENSION, ENV_PATH,
                   SOURCE_PATH, TARGET_PATH, video_source_files, i, calls,
                   results, inflight, log, pathWrites, raw, returned>>

\* the first of the four subscripts, in source order, whose key is absent; 0 if none
FirstMissingKey(doc) ==
    IF \A k \in 1..Len(Keys) : Keys[k] \in DOMAIN doc
    THEN 0
    ELSE CHOOSE k \in 1..Len(Keys) :
            /\ Keys[k] \notin DOMAIN doc
            /\ \A j \in 1..(k-1) : Keys[j] \in DOMAIN doc

\* mutation of ReadConfigKeys: CONFIG.get(key, "") instead of CONFIG[key]
ReadConfigKeys_Get ==
    /\ pc = "keys"
    /\ LET get(k) == IF Keys[k] \in DOMAIN CONFIG THEN CONFIG[Keys[k]] ELSE <<>>
       IN  /\ FFMPEG_DIR' = get(1)
           /\ VIDEO_SOURCE_DIR' = get(2)
           /\ VIDEO_TARGET_DIR' = get(3)
           /\ FILE_EXTENSION' = get(4)
           /\ pc' = "envpath"
           /\ UNCHANGED error
    /\ UNCHANGED <<startPath, cfgFile, cfgDoc, dirKind, listing, environ, CONFIG, ENV_PATH,
                   SOURCE_PATH, TARGET_PATH, video_source_files, i, calls,
                   results, inflight, log, pathWrites, raw, returned>>

\* CONFIG["ffmpeg_dir"] ... CONFIG["file_extension_filter"]
ReadConfigKeys ==
    /\ pc = "keys"
    /\ LET m == FirstMissingKey(CONFIG)
           get(k, old) == IF (m = 0 \/ k < m) THEN CONFIG[Keys[k]] ELSE old
       IN  /\ FFMPEG_DIR' = get(1, FFMPEG_DIR)
           /\ VIDEO_SOURCE_DIR' = get(2, VIDEO_SOURCE_DIR)
           /\ VIDEO_TARGET_DIR' = get(3, VIDEO_TARGET_DIR)
           /\ FILE_EXTENSION' = get(4, FILE_EXTENSION)
           /\ IF m = 0
              THEN pc' = "envpath" /\ UNCHANGED error
              ELSE Raise("KeyError", <<Keys[m]>>)
    /\ UNCHANGED <<startPath, cfgFile, cfgDoc, dirKind, listing, environ, CONFIG, ENV_PATH,
                   SOURCE_PATH, TARGET_PATH, video_source_files, i, calls,
                   results, inflight, log, pathWrites, raw, returned>>

\* ENV_PATH = FFMPEG_DIR + os.pathsep + os.environ['PATH'], then the two Path()s
ComputeEnvPath ==
    /\ pc = "envpath"
    /\ IF environ.has
       THEN /\ ENV_PATH' = FFMPEG_DIR \o PATHSEP \o environ.PATH
            /\ SOURCE_PATH' = Path(VIDEO_SOURCE_DIR)
            /\ TARGET_PATH' = Path(VIDEO_TARGET_DIR)
            /\ pc' = "main"
            /\ UNCHANGED error
       ELSE /\ Raise("KeyError", <<"PATH">>)
            /\ UNCHANGED <<ENV_PATH, SOURCE_PATH, TARGET_PATH>>
    /\ UNCHANGED <<startPath, cfgFile, cfgDoc, dirKind, listing, environ, CONFIG,
                   FFMPEG_DIR, VIDEO_SOURCE_DIR, VIDEO_TARGET_DIR,
                   FILE_EXTENSION, video_source_files, i, calls, results,
                   inflight, log, pathWrites, raw, returned>>

-----------------------------------------------------------------------------
(* Command lines, lines 45-54 *)

FFMPEG_INSPECT_COMMAND_HEAD ==
    << <<"f", "f", "p", "r", "o", "b", "e">>,
       <<"-", "v">>, <<"e", "r", "r", "o", "r">>,
       <<"-", "s", "h", "o", "w", "_", "e", "n", "t", "r", "i", "e", "s">>,
       <<"s", "t", "r", "e", "a", "m", "=", "i", "n", "d", "e", "x", ",",
         "c", "o", "d", "e", "c", "_", "t", "y", "p", "e", ":",
         "s", "t", "r", "e", "a", "m", "_", "t", "a", "g", "s", "=",
         "l", "a", "n", "g", "u", "a", "g", "e">>,
       <<"-", "o", "f">>, <<"j", "s", "o", "n">> >>

FFMPEG_REMOVE_HUN_AUDIO_COMMAND_P1 ==
    << <<"f", "f", "m", "p", "e", "g">>, <<"-", "i">> >>

FFMPEG_REMOVE_HUN_AUDIO_COMMAND_P2 ==
    << <<"-", "m", "a", "p">>, <<"0", ":", "v">>,
       <<"-", "m", "a", "p">>, <<"0", ":", "s">>,
       <<"-", "m", "a", "p">>, <<"-", "0", ":", "a", ":", "0">>,
       <<"-", "m", "a", "p">>, <<"0", ":", "a", ":", "1">>,
       <<"-", "c", ":", "v">>, <<"c", "o", "p", "y">>,
       <<"-", "c", ":", "a">>, <<"c", "o", "p", "y">>,
       <<"-", "c", ":", "s">>, <<"c", "o", "p", "y">> >>

-----------------------------------------------------------------------------
(* get_video_files_from_path, lines 57-58 *)

\* the condition of the comprehension
SuffixMatches(file, extension) == Lower(Suffix(file)) = <<".">> \o extension

get_video_files_from_path(dir_path, entries, extension) ==
    LET kept == SelectSeq(IterDir(dir_path, entries),
                          LAMBDA file : SuffixMatches(file, extension))
    IN  [k \in 1..Len(kept) |-> PathJoin(dir_path, kept[k])]

-----------------------------------------------------------------------------
(* __main__, lines 121-134 *)

\* mutation of SetEnvPath: the tool directory is appended to the PATH in
\* force instead of the precomputed ENV_PATH being stored
SetEnvPath_Append ==
    /\ pc = "main"
    /\ environ' = [has |-> TRUE, PATH |-> environ.PATH \o PATHSEP \o FFMPEG_DIR]
    /\ pathWrites' = pathWrites + 1
    /\ pc' = "enumerate"
    /\ UNCHANGED <<startPath, cfgFile, cfgDoc, dirKind, listing, CONFIG, FFMPEG_DIR,
                   VIDEO_SOURCE_DIR, VIDEO_TARGET_DIR, FILE_EXTENSION, ENV_PATH,
                   SOURCE_PATH, TARGET_PATH, video_source_files, i, calls,
                   results, inflight, log, error, raw, returned>>

\* os.environ['PATH'] = ENV_PATH
SetEnvPath ==
    /\ pc = "main"
    /\ environ' = [has |-> TRUE, PATH |-> ENV_PATH]
    /\ pathWrites' = pathWrites + 1
    /\ pc' = "enumerate"
    /\ UNCHANGED <<startPath, cfgFile, cfgDoc, dirKind, listing, CONFIG, FFMPEG_DIR,
                   VIDEO_SOURCE_DIR, VIDEO_TARGET_DIR, FILE_EXTENSION, ENV_PATH,
                   SOURCE_PATH, TARGET_PATH, video_source_files, i, calls,
                   results, inflight, log, error, raw, returned>>

\* mutation of Enumerate: a source directory that cannot be listed is taken
\* to be empty (the exception of iterdir() is swallowed)
Enumerate_Lenient ==
    /\ pc = "enumerate"
    /\ video_source_files' =
          IF dirKind = "dir"
          THEN get_video_files_from_path(SOURCE_PATH, listing, FILE_EXTENSION)
          ELSE <<>>
    /\ i' = 1
    /\ pc' = "remove"
    /\ UNCHANGED <<startPath, cfgFile, cfgDoc, dirKind, listing, environ, CONFIG,
                   FFMPEG_DIR, VIDEO_SOURCE_DIR, VIDEO_TARGET_DIR,
                   FILE_EXTENSION, ENV_PATH, SOURCE_PATH, TARGET_PATH, calls,
                   results, inflight, log, error, pathWrites, raw, returned>>

\* video_source_files = get_video_files_from_path(SOURCE_PATH)
Enumerate ==
    /\ pc = "enumerate"
    /\ IF dirKind = "missing"
       THEN Raise("FileNotFoundError", <<Str(SOURCE_PATH)>>)
            /\ UNCHANGED <<video_source_files, i>>
       ELSE IF dirKind = "file"
       THEN Raise("NotADirectoryError", <<Str(SOURCE_PATH)>>)
            /\ UNCHANGED <<video_source_files, i>>
       ELSE /\ video_source_files' =
                 get_video_files_from_path(SOURCE_PATH, listing, FILE_EXTENSION)
            /\ i' = 1
            /\ pc' = "remove"
            /\ UNCHANGED error
    /\ UNCHANGED <<startPath, cfgFile, cfgDoc, dirKind, listing, environ, CONFIG,
                   FFMPEG_DIR, VIDEO_SOURCE_DIR, VIDEO_TARGET_DIR,
                   FILE_EXTENSION, ENV_PATH, SOURCE_PATH, TARGET_PATH, calls,
                   results, inflight, log, pathWrites, raw, returned>>

-----------------------------------------------------------------------------
(* remove_hun_audio_from_files, lines 61-76 *)

\* mutation of RemoveCommand: the [:] copies are dropped and the vector is
\* built in place, so FFMPEG_REMOVE_HUN_AUDIO_COMMAND_P1 keeps what earlier
\* files appended to it
RemoveCommand_Aliased(video_file, target_dir) ==
    LET output_file_path ==
            Str(PathJoin(target_dir, [abs |-> FALSE, names |-> <<LastPart(video_file)>>]))
        head == IF calls = <<>> THEN FFMPEG_REMOVE_HUN_AUDIO_COMMAND_P1
                ELSE calls[Len(calls)].cmd
    IN  head \o <<Str(video_file)>>
            \o FFMPEG_REMOVE_HUN_AUDIO_COMMAND_P2 \o <<output_file_path>>

\* lines 68-69: the argument vector for one file
RemoveCommand(video_file, target_dir) ==
    LET output_file_path ==
            Str(PathJoin(target_dir, [abs |-> FALSE, names |-> <<LastPart(video_file)>>]))
    IN  FFMPEG_REMOVE_HUN_AUDIO_COMMAND_P1 \o <<Str(video_file)>>
            \o FFMPEG_REMOVE_HUN_AUDIO_COMMAND_P2 \o <<output_file_path>>

\* lines 67-72: next file of the loop, up to the start of the child process;
\* subprocess.run raises FileNotFoundError when the executable is not found
RemoveSpawn ==
    /\ pc = "remove"
    /\ i <= Len(video_source_files)
    /\ LET video_file == video_source_files[i]
           command == RemoveCommand(video_file, TARGET_PATH)
           printed == log \o
              << [msg |-> "Removing HUN audio from video", arg |-> Name(video_file)],
                 [msg |-> "Command arguments", arg |-> command] >>
       IN  /\ log' = printed
           /\ \/ /\ calls' = Append(calls,
                        [cmd |-> command, PATH |-> environ.PATH, file |-> i])
                 /\ inflight' = inflight \cup {Len(calls) + 1}
                 /\ pc' = "running"
                 /\ UNCHANGED error
              \/ /\ Raise("FileNotFoundError", <<command[1]>>)
                 /\ UNCHANGED <<calls, inflight>>
    /\ UNCHANGED <<startPath, cfgFile, cfgDoc, dirKind, listing, environ, CONFIG,
                   FFMPEG_DIR, VIDEO_SOURCE_DIR, VIDEO_TARGET_DIR,
                   FILE_EXTENSION, ENV_PATH, SOURCE_PATH, TARGET_PATH,
                   video_source_files, i, results, pathWrites, raw, returned>>

\* mutation of RemoveInspectResult: the test is returncode > 0, so a child
\* killed by a signal (negative code) counts as a success
RemoveInspectResult_PositiveOnly(result) ==
    IF result.returncode > 0
    THEN /\ log' = Append(log, [msg |-> "Process failed with this error message",
                               arg |-> result.stderr])
         /\ Raise("RuntimeError", <<>>)
         /\ UNCHANGED i
    ELSE /\ log' = Append(log, [msg |-> "Removed HUN audio from video",
                               arg |-> Name(video_source_files[i])])
         /\ i' = i + 1
         /\ pc' = "remove"
         /\ UNCHANGED error

\* mutation of RemoveInspectResult: the failure is printed but not raised, and
\* the loop goes on to the next file
RemoveInspectResult_Continue(result) ==
    /\ log' = Append(log,
                IF result.returncode # 0
                THEN [msg |-> "Process failed with this error message",
                      arg |-> result.stderr]
                ELSE [msg |-> "Removed HUN audio from video",
                      arg |-> Name(video_source_files[i])])
    /\ i' = i + 1
    /\ pc' = "remove"
    /\ UNCHANGED error

\* lines 73-76 on a CompletedProcess
RemoveInspectResult(result) ==
    IF result.returncode # 0
    THEN /\ log' = Append(log, [msg |-> "Process failed with this error message",
                               arg |-> result.stderr])
         /\ Raise("RuntimeError", <<>>)
         /\ UNCHANGED i
    ELSE /\ log' = Append(log, [msg |-> "Removed HUN audio from video",
                               arg |-> Name(video_source_files[i])])
         /\ i' = i + 1
         /\ pc' = "remove"
         /\ UNCHANGED error

\* lines 72-76: the child exits, its output is captured, the result inspected
RemoveComplete ==
    /\ pc = "running"
    /\ \E rc \in ExitCodes, err \in StderrTexts, out \in StdoutTexts :
         LET result == [returncode |-> rc, stdout |-> out, stderr |-> err]
         IN  /\ results' = Append(results, result)
             /\ inflight' = inflight \ {Len(calls)}
             /\ RemoveInspectResult(result)
    /\ UNCHANGED <<startPath, cfgFile, cfgDoc, dirKind, listing, environ, CONFIG,
                   FFMPEG_DIR, VIDEO_SOURCE_DIR, VIDEO_TARGET_DIR,
                   FILE_EXTENSION, ENV_PATH, SOURCE_PATH, TARGET_PATH,
                   video_source_files, calls, pathWrites, raw, returned>>

\* mutation of RemoveReturn: the loop may stop one file early
RemoveReturn_OffByOne ==
    /\ pc = "remove"
    /\ i >= Len(video_source_files)
    /\ pc' = "done"
    /\ UNCHANGED <<startPath, cfgFile, cfgDoc, dirKind, listing, environ, CONFIG,
                   FFMPEG_DIR, VIDEO_SOURCE_DIR, VIDEO_TARGET_DIR,
                   FILE_EXTENSION, ENV_PATH, SOURCE_PATH, TARGET_PATH,
                   video_source_files, i, calls, results, inflight, log, error,
                   pathWrites, raw, returned>>

\* line 67 exhausted: the function returns and the script ends
RemoveReturn ==
    /\ pc = "remove"
    /\ i > Len(video_source_files)
    /\ pc' = "done"
    /\ UNCHANGED <<startPath, cfgFile, cfgDoc, dirKind, listing, environ, CONFIG,
                   FFMPEG_DIR, VIDEO_SOURCE_DIR, VIDEO_TARGET_DIR,
                   FILE_EXTENSION, ENV_PATH, SOURCE_PATH, TARGET_PATH,
                   video_source_files, i, calls, results, inflight, log, error,
                   pathWrites, raw, returned>>

Next ==
    \/ LoadConfig
    \/ ReadConfigKeys
    \/ ComputeEnvPath
    \/ SetEnvPath
    \/ Enumerate
    \/ RemoveSpawn
    \/ RemoveComplete
    \/ RemoveReturn

Spec == Init /\ [][Next]_vars

-----------------------------------------------------------------------------
(* get_file_data_list_raw and get_file_data, lines 79-100, called on their own *)

\* the paths an input list may hold
InspectInputs ==
    { Path(<<"/", "v", "/", "a", ".", "m", "k", "v">>),
      Path(<<"v", "/", "c", ".", "t", "x", "t">>) }

InputLists == UNION {[1..n -> InspectInputs] : n \in 0..MaxFiles}

\* the configuration of the module docstring (lines 5-10), as POSIX paths
ExampleConfig ==
    [k \in Range(Keys) |->
        CASE k = "ffmpeg_dir" -> <<"/", "f", "f">>
          [] k = "source_dir" -> <<"/", "v">>
          [] k = "target_dir" -> <<"/", "t">>
          [] k = "file_extension_filter" -> T_mkv]

\* state at the call get_file_data_list_raw(video_files), module body done
InitInspect ==
    /\ pc = "inspect"
    /\ cfgFile = "json"
    /\ cfgDoc = ExampleConfig
    /\ dirKind = "dir"
    /\ listing = <<>>
    /\ CONFIG = cfgDoc
    /\ FFMPEG_DIR = cfgDoc["ffmpeg_dir"]
    /\ VIDEO_SOURCE_DIR = cfgDoc["source_dir"]
    /\ VIDEO_TARGET_DIR = cfgDoc["target_dir"]
    /\ FILE_EXTENSION = cfgDoc["file_extension_filter"]
    /\ \E p \in PathValues :
         /\ ENV_PATH = FFMPEG_DIR \o PATHSEP \o p
         /\ environ = [has |-> TRUE, PATH |-> ENV_PATH]
         /\ startPath = p
    /\ SOURCE_PATH = Path(VIDEO_SOURCE_DIR)
    /\ TARGET_PATH = Path(VIDEO_TARGET_DIR)
    /\ video_source_files \in InputLists
    /\ i = 1
    /\ calls = <<>>
    /\ results = <<>>
    /\ inflight = {}
    /\ log = <<>>
    /\ error = NoError
    /\ pathWrites = 1
    /\ raw = <<>>
    /\ returned = <<FALSE, <<>>>>

\* line 95
InspectCommand(video_file) == FFMPEG_INSPECT_COMMAND_HEAD \o <<Str(video_file)>>

\* lines 85, 95-96: next element of the comprehension, up to the start of ffprobe
InspectSpawn ==
    /\ pc = "inspect"
    /\ i <= Len(video_source_files)
    /\ LET ffprobe_command == InspectCommand(video_source_files[i])
       IN  \/ /\ calls' = Append(calls,
                     [cmd |-> ffprobe_command, PATH |-> environ.PATH, file |-> i])
              /\ inflight' = inflight \cup {Len(calls) + 1}
              /\ pc' = "probing"
              /\ UNCHANGED error
           \/ /\ Raise("FileNotFoundError", <<ffprobe_command[1]>>)
              /\ UNCHANGED <<calls, inflight>>
    /\ UNCHANGED <<startPath, cfgFile, cfgDoc, dirKind, listing, environ, CONFIG,
                   FFMPEG_DIR, VIDEO_SOURCE_DIR, VIDEO_TARGET_DIR,
                   FILE_EXTENSION, ENV_PATH, SOURCE_PATH, TARGET_PATH,
                   video_source_files, i, results, log, pathWrites, raw,
                   returned>>

\* mutation of FileData: stdout is returned whatever the exit code
FileData_Unchecked(result) == result.stdout

\* lines 97-100: the value get_file_data returns for a CompletedProcess
FileData(result) == IF result.returncode = 0 THEN result.stdout ELSE <<>>

\* lines 96-100 and the append of line 85
InspectComplete ==
    /\ pc = "probing"
    /\ \E rc \in ExitCodes, err \in StderrTexts, out \in StdoutTexts :
         LET result == [returncode |-> rc, stdout |-> out, stderr |-> err]
         IN  /\ results' = Append(results, result)
             /\ raw' = Append(raw, FileData(result))
    /\ inflight' = inflight \ {Len(calls)}
    /\ i' = i + 1
    /\ pc' = "inspect"
    /\ UNCHANGED <<startPath, cfgFile, cfgDoc, dirKind, listing, environ, CONFIG,
                   FFMPEG_DIR, VIDEO_SOURCE_DIR, VIDEO_TARGET_DIR,
                   FILE_EXTENSION, ENV_PATH, SOURCE_PATH, TARGET_PATH,
                   video_source_files, calls, log, error, pathWrites, returned>>

\* line 85: the comprehension is exhausted and the list is returned
InspectReturn ==
    /\ pc = "inspect"
    /\ i > Len(video_source_files)
    /\ returned' = <<TRUE, raw>>
    /\ pc' = "returned"
    /\ UNCHANGED <<startPath, cfgFile, cfgDoc, dirKind, listing, environ, CONFIG,
                   FFMPEG_DIR, VIDEO_SOURCE_DIR, VIDEO_TARGET_DIR,
                   FILE_EXTENSION, ENV_PATH, SOURCE_PATH, TARGET_PATH,
                   video_source_files, i, calls, results, inflight, log, error,
                   pathWrites, raw>>

NextInspect ==
    \/ InspectSpawn
    \/ InspectComplete
    \/ InspectReturn

SpecInspect == InitInspect /\ [][NextInspect]_vars

-----------------------------------------------------------------------------
(* Properties *)

N == Len(video_source_files)

\* the child processes 1..k-1 exited with 0 and the k-th did not
FailedAtFile(k) ==
    /\ Len(results) >= k
    /\ results[k].returncode # 0
    /\ \A j \in 1..(k-1) : results[j].returncode = 0

AllExitedZero == \A j \in 1..Len(results) : results[j].returncode = 0

\* the batch was entered: the source directory was enumerated
InBatch == pc \in {"remove", "running", "done"} \/ (pc = "failed" /\ Len(log) > 0)

\* C1 as stated: when ffmpeg exits with 0 for files 1..K-1 and with a non-zero
\* code for file K, ffmpeg was started exactly K times, never for a later
\* file, and the run ends with an exception that carries the name of the K-th
\* file and the captured stderr.
C1_AbortCarriesFileAndStderr ==
    \A k \in 1..N :
        FailedAtFile(k) =>
            /\ pc = "failed"
            /\ Len(calls) = k
            /\ \A j \in 1..k : calls[j].file = j
            /\ error.type = "RuntimeError"
            /\ Name(video_source_files[k]) \in Range(error.args)
            /\ results[k].stderr \in Range(error.args)

\* C1 amended: under the same premise ffmpeg was started exactly K times (once
\* for each of the files 1..K, none later), the run ends with a RuntimeError
\* that has no arguments, and the name of the K-th file and the captured
\* stderr are the arguments of print() calls made before the raise.
C1_FailFastAbort ==
    \A k \in 1..N :
        FailedAtFile(k) =>
            /\ pc = "failed"
            /\ Len(calls) = k
            /\ Len(results) = k
            /\ inflight = {}
            /\ \A j \in 1..k : calls[j].file = j
            /\ error = [type |-> "RuntimeError", args |-> <<>>]
            /\ Len(log) = 3 * k
            /\ log[3 * k - 2] = [msg |-> "Removing HUN audio from video",
                                 arg |-> Name(video_source_files[k])]
            /\ log[3 * k] = [msg |-> "Process failed with this error message",
                             arg |-> results[k].stderr]

\* a run that failed at the second of three files
C1_Witness ==
    /\ N = 3
    /\ FailedAtFile(2)
    /\ results[2].returncode < 0
    /\ results[2].stderr # <<>>
    /\ pc = "failed"

\* C2: while every ffmpeg run so far exited with 0, the j-th run was for the
\* j-th file (no retry, no skip) and no failure was raised by the batch; when
\* all N runs exited with 0 the loop is over, and the script ends normally
\* after exactly N runs.
C2_AllSuccess ==
    /\ (InBatch /\ AllExitedZero) =>
            /\ Len(calls) <= N
            /\ \A j \in 1..Len(calls) : calls[j].file = j
            /\ error.type # "RuntimeError"
            /\ (pc = "remove" => i = Len(results) + 1)
            /\ (pc = "failed" => error.type = "FileNotFoundError"
                                    /\ Len(calls) = Len(results))
    /\ pc = "done" =>
            /\ Len(calls) = N
            /\ Len(results) = N
            /\ AllExitedZero
            /\ error = NoError
            /\ inflight = {}

\* three files, three successful runs, normal end
C2_Witness ==
    /\ pc = "done"
    /\ N = 3
    /\ Len(calls) = 3
    /\ AllExitedZero

\* the source directory has been enumerated
Enumerated == InBatch

\* C3 as stated: the files returned by get_video_files_from_path(D, E) are,
\* one for one, the direct children of D whose name ends with "." + E when
\* both are compared without regard to letter case.
C3_FilterCaseInsensitive ==
    Enumerated =>
        LET wanted == {nm \in Range(listing) :
                          EndsWith(Lower(nm), Lower(<<".">> \o FILE_EXTENSION))}
        IN  /\ {Name(video_source_files[k]) : k \in 1..N} = wanted
            /\ N = Cardinality(wanted)

\* the path of the child of directory d that is called nm
Child(d, nm) == [abs |-> d.abs, names |-> Append(d.names, nm)]

\* C9 as stated: every path returned by get_video_files_from_path is the
\* path of an entry of D (D joined with the child's name), whether D is
\* absolute or relative, and the source argument of every ffmpeg run is the
\* path of such an entry.
C9_ReturnedPathsAreEntries ==
    Enumerated =>
        /\ \A k \in 1..N :
              \E nm \in Range(listing) :
                  video_source_files[k] = Child(Path(cfgDoc["source_dir"]), nm)
        /\ \A j \in 1..Len(calls) :
              \E nm \in Range(listing) :
                  calls[j].cmd[3] = Str(Child(Path(cfgDoc["source_dir"]), nm))

\* C4: every ffmpeg run gets the vector ffmpeg -i S -map 0:v -map 0:s
\* -map -0:a:0 -map 0:a:1 -c:v copy -c:a copy -c:s copy O/name(S), where S is
\* the text of the file's path and O the configured target directory,
\* whatever was processed before.
C4_CommandVector ==
    \A j \in 1..Len(calls) :
        LET S == video_source_files[calls[j].file]
        IN  calls[j].cmd =
              << <<"f", "f", "m", "p", "e", "g">>, <<"-", "i">>, Str(S),
                 <<"-", "m", "a", "p">>, <<"0", ":", "v">>,
                 <<"-", "m", "a", "p">>, <<"0", ":", "s">>,
                 <<"-", "m", "a", "p">>, <<"-", "0", ":", "a", ":", "0">>,
                 <<"-", "m", "a", "p">>, <<"0", ":", "a", ":", "1">>,
                 <<"-", "c", ":", "v">>, <<"c", "o", "p", "y">>,
                 <<"-", "c", ":", "a">>, <<"c", "o", "p", "y">>,
                 <<"-", "c", ":", "s">>, <<"c", "o", "p", "y">>,
                 cfgDoc["target_dir"] \o <<"/">> \o Name(S) >>

\* a third vector built after two files were processed, for a relative
\* target directory
C4_Witness ==
    /\ Len(calls) = 3
    /\ Len(results) = 2
    /\ cfgDoc["target_dir"] = <<"t">>
    /\ Last(calls[3].cmd) = <<"t", "/", "e", ".", "M", "k", "v">>

\* the configuration file holds a JSON object that lacks a required key
KeyMissing == cfgFile = "json" /\ \E k \in 1..Len(Keys) : Keys[k] \notin DOMAIN cfgDoc

\* C5: with a configuration document that lacks one of the four keys the
\* run ends in a KeyError for an absent key while the module body reads the
\* keys: the search path is not rewritten, the source directory is not
\* enumerated and no process is started.
C5_MissingKeyFailsAtStartup ==
    KeyMissing =>
        /\ pc \in {"load", "keys", "failed"}
        /\ pc = "failed" =>
              /\ error.type = "KeyError"
              /\ Len(error.args) = 1
              /\ error.args[1] \in Range(Keys) \ DOMAIN cfgDoc
        /\ pathWrites = 0
        /\ video_source_files = <<>>
        /\ calls = <<>>
        /\ inflight = {}
        /\ log = <<>>

\* the document has the three other keys but not source_dir, and the run failed
C5_Witness ==
    /\ cfgFile = "json"
    /\ DOMAIN cfgDoc = Range(Keys) \ {"source_dir"}
    /\ pc = "failed"
    /\ error = [type |-> "KeyError", args |-> <<"source_dir">>]

\* C6: when the configured source directory does not exist or is not a
\* directory, the loop over the files is never entered and no process is
\* started; a run that gets as far as the enumeration ends there with
\* FileNotFoundError or NotADirectoryError for that directory.
C6_DirectoryNotFound ==
    dirKind # "dir" =>
        /\ pc \notin {"remove", "running", "done"}
        /\ calls = <<>>
        /\ inflight = {}
        /\ results = <<>>
        /\ (pc = "failed" /\ pathWrites = 1) =>
              /\ error.type = IF dirKind = "missing" THEN "FileNotFoundError"
                                                     ELSE "NotADirectoryError"
              /\ error.args = <<cfgDoc["source_dir"]>>

\* the enumeration of a missing, relative source directory failed
C6_Witness ==
    /\ dirKind = "missing"
    /\ pc = "failed"
    /\ pathWrites = 1
    /\ error = [type |-> "FileNotFoundError", args |-> << <<"v">> >>]
    /\ calls = <<>>

\* C7: at most one child process runs at a time; the j-th process started is
\* for the j-th enumerated file; and it is started only after the processes
\* for all earlier files have exited with 0 and their results were recorded.
C7_Sequential ==
    /\ Cardinality(inflight) <= 1
    /\ inflight \subseteq {Len(calls)}
    /\ Len(results) = Len(calls) - Cardinality(inflight)
    /\ \A j \in 1..Len(calls) :
          /\ calls[j].file = j
          /\ j <= N
          /\ calls[j].cmd[3] = Str(video_source_files[j])
          /\ \A h \in 1..(j-1) : results[h].returncode = 0
    /\ (pc = "running") = (inflight # {})

\* the third process is running after the first two exited with 0
C7_Witness ==
    /\ Len(calls) = 3
    /\ inflight = {3}
    /\ Len(results) = 2
    /\ calls[3].cmd[3] = Str(video_source_files[3])

\* line 123 has run
PathAugmented == pc \in {"enumerate", "remove", "running", "done"}
                    \/ (pc = "failed" /\ pathWrites > 0)

\* C8: os.environ['PATH'] is assigned at most once; before the assignment
\* nothing is enumerated and no process is started; from the assignment on,
\* and at the start of every process, it is the configured tool directory,
\* os.pathsep and the PATH the process started with.
C8_SearchPathOnce ==
    LET augmented == cfgDoc["ffmpeg_dir"] \o <<":">> \o startPath
    IN  /\ pathWrites <= 1
        /\ pathWrites = 0 =>
              /\ ~PathAugmented
              /\ video_source_files = <<>>
              /\ calls = <<>>
              /\ (environ.has => environ.PATH = startPath)
        /\ PathAugmented =>
              /\ pathWrites = 1
              /\ environ = [has |-> TRUE, PATH |-> augmented]
        /\ \A j \in 1..Len(calls) : calls[j].PATH = augmented

\* a second process was started with the augmented search path
C8_Witness ==
    /\ Len(calls) = 2
    /\ pathWrites = 1
    /\ startPath = <<"/", "b", ":", "/", "u">>
    /\ calls[2].PATH = <<"/", "f", "f", ":", "/", "b", ":", "/", "u">>

\* C10: get_file_data_list_raw starts ffprobe once per file in input order;
\* entry j of the list is the stdout of the j-th run if it exited with 0 and
\* the empty string otherwise; a non-zero exit code raises nothing and the
\* next file is inspected; the list returned has one entry per input file.
C10_InspectNeverAborts ==
    /\ Len(raw) = Len(results)
    /\ Len(calls) <= N
    /\ \A j \in 1..Len(calls) :
          /\ calls[j].file = j
          /\ calls[j].cmd[1] = <<"f", "f", "p", "r", "o", "b", "e">>
          /\ Last(calls[j].cmd) = Str(video_source_files[j])
    /\ \A j \in 1..Len(results) :
          raw[j] = IF results[j].returncode = 0 THEN results[j].stdout ELSE <<>>
    /\ error.type \in {"none", "FileNotFoundError"}
    /\ pc = "failed" => Len(calls) = Len(results)
    /\ pc = "inspect" => i = Len(results) + 1
    /\ returned[1] =>
          /\ pc = "returned"
          /\ returned[2] = raw
          /\ Len(returned[2]) = N
          /\ Len(calls) = N

\* three files inspected, the first run failed with output, the list returned
C10_Witness ==
    /\ returned[1]
    /\ N = 3
    /\ results[1].returncode # 0
    /\ results[1].stdout # <<>>
    /\ returned[2][1] = <<>>
    /\ results[3].returncode = 0
    /\ returned[2][3] = results[3].stdout
    /\ returned[2][3] # <<>>

====
